---------------------------- MODULE Spec2Model ----------------------------
(* Model of the grading side panel: the GradingView orchestrator            *)
(* (src/components/GradingView.tsx), the rubric state of App                *)
(* (src/unnamed/part_000) and the host page seen through the content        *)
(* script (src/content.js), and on their own the helper functions of the    *)
(* content script and of src/services/geminiService.ts.                     *)
(*                                                                          *)
(* A React function component runs every handler inside the closure of the  *)
(* render that created it.  A timer or a message callback therefore keeps   *)
(* reading the mode, pageContext, result and rubric props of the render     *)
(* that started it, while refs (isBatchRunningRef, lastGradedNameRef) and   *)
(* functional state updates see the latest values.  Every pending           *)
(* continuation of the model carries that closure.                          *)
EXTENDS Integers, Sequences, FiniteSets, Bags, TLC

\* ------------------------------------------------------------ bounds
NumStudents == 2      \* answer sheets the host page can show
MaxTasks    == 1      \* pending continuations (timers, requests, AI calls)
MaxOverlap  == 2      \* pending continuations when two are let overlap
MaxWait     == 2      \* cap of scanWaitCount
MaxBatch    == 2      \* cap of batchCount
MaxHistory  == 2      \* cap of the stored history list during the check
MaxCalls    == 2      \* recordHistory calls made on a stored list
MaxMatches  == 2      \* score-input selectors that match an element of the page
MaxFragments == 3     \* fragments of a hostname
MaxElements == 2      \* image elements and containers on a scraped page
MaxEntries  == 3      \* entries of the history the analysis reads

\* ------------------------------------------------------------ constants
HISTORY_CAP == 500

Students == 1..NumStudents
NameList == <<"A", "B">>
DefaultName == "unknown"          \* the literal "未知学生"
NoName == "<null>"
NoCtx == [none |-> "ctx"]
NoPlatform == "<null>"
NoSheet == 0
NoResult == [none |-> "result"]
NoError == "<null>"
NoFill == [none |-> "fill"]
NoCall == [none |-> "call"]

Range(seq) == {seq[i] : i \in 1..Len(seq)}

\* probe: the call under study when a helper function is checked on its own
\* (history storage, score fill, provider service); unused by the panel
NoProbe == [fn |-> "none"]

Trial == "trial"
Batch == "batch"

DEFAULT_GENERIC_RUBRIC == "generic"
MsgNoTab == "no active tab"
MsgConn == "connection failed"
MsgThrow == "unknown messaging error"
MsgNoImage == "no answer sheet located"
MsgAiBatch == "AI error, batch paused"
MsgAiTrial == "AI error, check network or key"

\* rubric texts the operator can save: empty, whitespace only, real text
RubricTexts == {"", " ", "rubric"}
trim(text) == IF text = " " THEN "" ELSE text

VARIABLES
  mode, status, pageContext, result, errorMsg, health,
  isBatchRunning, batchCount, scanWaitCount,
  isBatchRunningRef, lastGradedNameRef,
  isRubricConfigured, rubricContent,
  history, nameVisible, tasks, gradedInRun, ev,
  probe

vars == <<mode, status, pageContext, result, errorMsg, health,
          isBatchRunning, batchCount, scanWaitCount,
          isBatchRunningRef, lastGradedNameRef,
          isRubricConfigured, rubricContent,
          history, nameVisible, tasks, gradedInRun, ev, probe>>

\* ------------------------------------------------------------ host page
\* name printed on the sheet of student s; different students can share one
RealName(s) == NameList[((s - 1) % Len(NameList)) + 1]

\* scrapeData: the name label, or the default when no label is readable
scrapeName(s, visible) == IF visible THEN RealName(s) ELSE DefaultName

detectPlatform == "GENERIC"

scrapeData(s, visible) ==
  [platform |-> detectPlatform, studentName |-> scrapeName(s, visible),
   answerImageBase64 |-> s]

\* ------------------------------------------------------------ provider
\* the operator has stored an API key
checkApiKeyConfigured == TRUE

\* the structured result the provider returns for an answer image: its score
\* and a comment/breakdown that belong to that answer
assessStudentAnswer(image) == [name |-> "", score |-> image, comment |-> image]

\* ------------------------------------------------------------ handler state
\* what handlers emit: messages to the page, AI calls, scheduled scans
NoEffects ==
  [running |-> FALSE, fail |-> "none", scanned |-> NoSheet, req |-> FALSE,
   fill |-> NoFill, ai |-> NoCall, timers |-> 0, res |-> NoResult,
   hasTab |-> TRUE, clMode |-> Trial]

Cur ==
  [status |-> status, pageContext |-> pageContext, result |-> result,
   errorMsg |-> errorMsg, isBatchRunning |-> isBatchRunning,
   batchCount |-> batchCount, scanWaitCount |-> scanWaitCount,
   runRef |-> isBatchRunningRef, lastRef |-> lastGradedNameRef,
   history |-> history, tasks |-> tasks, graded |-> gradedInRun,
   out |-> NoEffects]

\* the values a handler created by the current render closes over
\* (of pageContext only the platform is ever read through a closure)
Closure(m) ==
  [mode |-> m,
   platform |-> IF pageContext = NoCtx THEN NoPlatform ELSE pageContext.platform,
   result |-> result,
   isRubricConfigured |-> isRubricConfigured, currentRubric |-> rubricContent]

Task(kind, cl, ctx, res) == [kind |-> kind, cl |-> cl, ctx |-> ctx, res |-> res]

AddTask(s, t) == [s EXCEPT !.tasks = @ (+) SetToBag({t})]
DelTask(s, t) == [s EXCEPT !.tasks = @ (-) SetToBag({t})]


\* ------------------------------------------------------------ handlers
\* mutant: the retry is bounded, the second wait in a row gives up
scheduleScan_Ceiling(s, cl) ==
  IF s.scanWaitCount >= 2
    THEN [s EXCEPT !.isBatchRunning = FALSE, !.runRef = FALSE,
                   !.errorMsg = MsgNoImage, !.status = "error"]
    ELSE [AddTask(s, Task("scanTimer", cl, NoCtx, NoResult))
            EXCEPT !.out.timers = @ + 1]

\* setTimeout(scanPage, ...): one more pending scan of the same closure
scheduleScan(s, cl) ==
  [AddTask(s, Task("scanTimer", cl, NoCtx, NoResult)) EXCEPT !.out.timers = @ + 1]

stopBatch(s) ==
  [s EXCEPT !.isBatchRunning = FALSE, !.runRef = FALSE, !.status = "sleeping"]

\* mutant: a failure is retried whether or not the loop is running
handleScanError_Retry(s, cl, msg) == scheduleScan(s, cl)

handleScanError(s, cl, msg) ==
  IF s.runRef
    THEN scheduleScan(s, cl)
    ELSE [s EXCEPT !.errorMsg = msg, !.status = "error"]

\* mutant: every scan shows the scanning pane, also inside a running batch
scanPage_Scanning(s, cl, tab) ==
  LET s2 == [s EXCEPT !.status = "scanning", !.errorMsg = NoError,
                      !.pageContext = NoCtx, !.out.running = s.runRef]
  IN CASE tab = "throw" ->
            handleScanError([s2 EXCEPT !.out.fail = "throw"], cl, MsgThrow)
       [] tab = "none" ->
            handleScanError([s2 EXCEPT !.out.fail = "noTab"], cl, MsgNoTab)
       [] OTHER ->
            [AddTask(s2, Task("scanReq", cl, NoCtx, NoResult))
               EXCEPT !.out.req = TRUE]

\* scanPage up to the point where REQUEST_PAGE_DATA is on its way.
\* tab: "throw" (the messaging API throws), "none" (no active tab), "ok"
scanPage(s, cl, tab) ==
  LET s1 == IF ~s.runRef
              THEN [s EXCEPT !.status = "scanning", !.scanWaitCount = 0]
              ELSE s
      s2 == [s1 EXCEPT !.errorMsg = NoError, !.pageContext = NoCtx,
                       !.out.running = s.runRef]
  IN CASE tab = "throw" ->
            handleScanError([s2 EXCEPT !.out.fail = "throw"], cl, MsgThrow)
       [] tab = "none" ->
            handleScanError([s2 EXCEPT !.out.fail = "noTab"], cl, MsgNoTab)
       [] OTHER ->
            [AddTask(s2, Task("scanReq", cl, NoCtx, NoResult))
               EXCEPT !.out.req = TRUE]

\* the AI call of startGrading, up to the await
startGrading(s, cl, ctx, rubric) ==
  [AddTask(s, Task("grading", cl, ctx, NoResult))
     EXCEPT !.status = "grading",
            !.out.ai = [answer |-> ctx.answerImageBase64, rubric |-> rubric]]

handlePageData(s, cl, data) ==
  LET s1 == [s EXCEPT !.pageContext = data]
  IN IF ~cl.isRubricConfigured \/ cl.currentRubric = ""
       THEN IF cl.mode = Batch /\ s.runRef
              THEN stopBatch([s1 EXCEPT !.status = "review",
                                        !.result = NoResult])
              ELSE startGrading(s1, cl, data, DEFAULT_GENERIC_RUBRIC)
       ELSE startGrading(s1, cl, data, cl.currentRubric)

\* mutant: the wait counter is not reset when a new student shows up
onPageData_NoReset(s0, cl, resp) ==
  LET s == [s0 EXCEPT !.out.running = s0.runRef]
  IN CASE resp.kind = "lastError" ->
            handleScanError([s EXCEPT !.out.fail = "lastError"], cl, MsgConn)
       [] resp.kind = "failed" ->
            IF s.runRef
              THEN scheduleScan([s EXCEPT !.out.fail = "failed",
                                          !.scanWaitCount = @ + 1], cl)
              ELSE handleScanError([s EXCEPT !.out.fail = "failed"], cl,
                                   MsgNoImage)
       [] OTHER ->
            LET sn == [s EXCEPT !.out.scanned = resp.data.answerImageBase64]
            IN IF sn.runRef /\ resp.data.studentName = sn.lastRef
                 THEN scheduleScan([sn EXCEPT !.scanWaitCount = @ + 1], cl)
                 ELSE handlePageData(sn, cl, resp.data)

\* the callback of chrome.tabs.sendMessage(REQUEST_PAGE_DATA).
\* resp.kind: "lastError", "failed" (no success/data) or "ok" with the
\* scraped PageContext in resp.data
onPageData(s0, cl, resp) ==
  LET s == [s0 EXCEPT !.out.running = s0.runRef]
  IN CASE resp.kind = "lastError" ->
            handleScanError([s EXCEPT !.out.fail = "lastError"], cl, MsgConn)
       [] resp.kind = "failed" ->
            IF s.runRef
              THEN scheduleScan([s EXCEPT !.out.fail = "failed",
                                          !.scanWaitCount = @ + 1], cl)
              ELSE handleScanError([s EXCEPT !.out.fail = "failed"], cl,
                                   MsgNoImage)
       [] OTHER ->
            LET sn == [s EXCEPT !.out.scanned = resp.data.answerImageBase64]
            IN IF sn.runRef /\ resp.data.studentName = sn.lastRef
                 THEN scheduleScan([sn EXCEPT !.scanWaitCount = @ + 1], cl)
                 ELSE handlePageData([sn EXCEPT !.scanWaitCount = 0], cl,
                                     resp.data)

\* startGrading after the await resolved with res
startGradingThen(s0, cl, ctx, raw) ==
  LET res == [raw EXCEPT !.name = IF ctx.studentName = ""
                                    THEN DefaultName ELSE ctx.studentName]
      s == [s0 EXCEPT !.result = res, !.status = "review",
                      !.out.running = s0.runRef, !.out.res = res]
  IN IF cl.mode = Batch /\ s.runRef
       THEN AddTask(s, Task("submitTimer", cl, ctx, res))
       ELSE s

\* mutant: a failed AI call is retried like a failed scan
startGradingCatch_Retry(s0, cl) ==
  LET s == [s0 EXCEPT !.out.running = s0.runRef, !.out.fail = "ai"]
  IN IF s.runRef
       THEN scheduleScan([s EXCEPT !.errorMsg = MsgAiBatch, !.status = "error"], cl)
       ELSE [s EXCEPT !.errorMsg = MsgAiTrial, !.status = "error"]

\* startGrading after the await rejected
startGradingCatch(s0, cl) ==
  LET s == [s0 EXCEPT !.out.running = s0.runRef, !.out.fail = "ai"]
  IN IF s.runRef
       THEN [stopBatch(s) EXCEPT !.errorMsg = MsgAiBatch, !.status = "error"]
       ELSE [s EXCEPT !.errorMsg = MsgAiTrial, !.status = "error"]

\* mutant: at the cap the entry just inserted is dropped, not the oldest
recordHistory_DropNewest(list, res, score, studentName) ==
  IF res = NoResult
    THEN list
    ELSE LET historyItem == [res EXCEPT !.score = score, !.name = studentName]
             unshifted == <<historyItem>> \o list
         IN IF Len(unshifted) > HISTORY_CAP
              THEN SubSeq(unshifted, 2, Len(unshifted))
              ELSE unshifted

\* mutant: the entry is pushed at the end of the list
recordHistory_Push(list, res, score, studentName) ==
  IF res = NoResult
    THEN list
    ELSE LET historyItem == [res EXCEPT !.score = score, !.name = studentName]
             pushed == list \o <<historyItem>>
         IN IF Len(pushed) > HISTORY_CAP
              THEN SubSeq(pushed, 1, Len(pushed) - 1)
              ELSE pushed

recordHistory(list, res, score, studentName) ==
  IF res = NoResult
    THEN list
    ELSE LET historyItem == [res EXCEPT !.score = score, !.name = studentName]
             unshifted == <<historyItem>> \o list
         IN IF Len(unshifted) > HISTORY_CAP
              THEN SubSeq(unshifted, 1, Len(unshifted) - 1)
              ELSE unshifted

\* hasTab: chrome.tabs.query found an active tab to send FILL_SCORE to
handleSubmitScore(s0, cl, score, studentName, answer, hasTab) ==
  LET s == [s0 EXCEPT !.out.running = s0.runRef, !.out.hasTab = hasTab]
      s1 == IF cl.platform # NoPlatform /\ hasTab
              THEN [s EXCEPT !.out.fill = [score |-> score,
                                           platform |-> cl.platform]]
              ELSE s
      s2 == [s1 EXCEPT !.history = recordHistory(@, cl.result, score, studentName)]
  IN IF cl.mode = Batch /\ s2.runRef
       THEN scheduleScan([s2 EXCEPT !.batchCount = @ + 1,
                                    !.lastRef = studentName,
                                    !.graded = Append(@, answer)], cl)
       ELSE s2

\* mutant: the loop starts whatever the health snapshot says
startBatch_NoCheck(s, cl, h, tab) ==
  scanPage([s EXCEPT !.isBatchRunning = TRUE, !.runRef = TRUE,
                     !.batchCount = 0, !.scanWaitCount = 0,
                     !.lastRef = NoName, !.graded = <<>>], cl, tab)

startBatch(s, cl, h, tab) ==
  IF ~h.api \/ ~h.rubric \/ ~h.pageLink
    THEN s
    ELSE scanPage([s EXCEPT !.isBatchRunning = TRUE, !.runRef = TRUE,
                            !.batchCount = 0, !.scanWaitCount = 0,
                            !.lastRef = NoName, !.graded = <<>>], cl, tab)

\* mutant: the mode effect forgets to stop the batch
modeEffect_KeepRunning(s, cl, tab) ==
  IF cl.mode = Trial
    THEN scanPage([s EXCEPT !.status = "scanning"], cl, tab)
    ELSE [s EXCEPT !.status = "sleeping"]

\* useEffect on [mode]
modeEffect(s, cl, tab) ==
  IF cl.mode = Trial
    THEN scanPage([stopBatch(s) EXCEPT !.status = "scanning"], cl, tab)
    ELSE [stopBatch(s) EXCEPT !.status = "sleeping"]

\* mutant: the text is saved without the blank test
handleSaveRubric_NoTrim(text) ==
  /\ isRubricConfigured' = TRUE
  /\ rubricContent' = text

handleSaveRubric(text) ==
  IF Len(trim(text)) > 0
    THEN /\ isRubricConfigured' = TRUE
         /\ rubricContent' = text
    ELSE UNCHANGED <<isRubricConfigured, rubricContent>>


\* ------------------------------------------------------------ actions
\* two continuations are let overlap when the probe asks for it; the counters
\* are then cut short to make room
Overlapping == probe = [fn |-> "overlap"]

Within(s) ==
  /\ BagCardinality(s.tasks) <= IF Overlapping THEN MaxOverlap ELSE MaxTasks
  /\ s.scanWaitCount <= IF Overlapping THEN 1 ELSE MaxWait
  /\ s.batchCount <= IF Overlapping THEN 1 ELSE MaxBatch
  /\ Len(s.history) <= IF Overlapping THEN 1 ELSE MaxHistory

\* the state a handler leaves behind, and what it emitted
Commit(s, op, clMode) ==
  /\ Within(s)
  /\ status' = s.status
  /\ pageContext' = s.pageContext
  /\ result' = s.result
  /\ errorMsg' = s.errorMsg
  /\ isBatchRunning' = s.isBatchRunning
  /\ batchCount' = s.batchCount
  /\ scanWaitCount' = s.scanWaitCount
  /\ isBatchRunningRef' = s.runRef
  /\ lastGradedNameRef' = s.lastRef
  /\ history' = s.history
  /\ tasks' = s.tasks
  /\ gradedInRun' = s.graded
  /\ ev' = [op |-> op] @@ [s.out EXCEPT !.clMode = clMode]

TabOutcomes == {"throw", "none", "ok"}

\* the sheets the host page can show: a single one when two continuations
\* are let overlap
SheetsShown == IF Overlapping THEN {1} ELSE Students

\* what the content script can answer: the host page shows any student
Responses ==
  {[kind |-> "lastError"], [kind |-> "failed"]} \cup
  {[kind |-> "ok", data |-> scrapeData(s, nameVisible)] : s \in SheetsShown}

Fixed == <<nameVisible, probe>>

\* the operator picks the other mode; the mode effect runs in the new render
SetMode(m) ==
  /\ m # mode
  /\ mode' = m
  /\ \E tab \in TabOutcomes :
       Commit(modeEffect(Cur, Closure(m), tab), "setMode", m)
  /\ UNCHANGED <<health, isRubricConfigured, rubricContent, Fixed>>

\* the rescan button of Trial mode, or the retry button of the error pane
ClickScan ==
  /\ mode = Trial \/ status = "error"
  /\ \E tab \in TabOutcomes :
       Commit(scanPage(Cur, Closure(mode), tab), "clickScan", mode)
  /\ UNCHANGED <<mode, health, isRubricConfigured, rubricContent, Fixed>>

\* the confirm button under a displayed result, Trial mode only
ClickConfirm ==
  /\ mode = Trial /\ status = "review" /\ result # NoResult
  /\ \E hasTab \in BOOLEAN :
       Commit([handleSubmitScore(Cur, Closure(mode), result.score, result.name,
                                 result.comment, hasTab)
                 EXCEPT !.out.res = result], "confirm", mode)
  /\ UNCHANGED <<mode, health, isRubricConfigured, rubricContent, Fixed>>

\* the start button of Batch mode (disabled while health.rubric is false)
ClickStart ==
  /\ mode = Batch /\ ~isBatchRunning /\ health.rubric
  /\ \E tab \in TabOutcomes :
       Commit(startBatch(Cur, Closure(mode), health, tab), "startBatch", mode)
  /\ UNCHANGED <<mode, health, isRubricConfigured, rubricContent, Fixed>>

\* the pause button of Batch mode
ClickStop ==
  /\ mode = Batch /\ isBatchRunning
  /\ Commit(stopBatch(Cur), "stopBatch", mode)
  /\ UNCHANGED <<mode, health, isRubricConfigured, rubricContent, Fixed>>

\* the 3 s health poll: CHECK_READY answered with hasImage = pageOk
checkSystemHealth ==
  /\ \E pageOk \in BOOLEAN :
       health' = [api |-> checkApiKeyConfigured, rubric |-> isRubricConfigured,
                  pageLink |-> pageOk]
  /\ health' # health
  /\ UNCHANGED <<mode, status, pageContext, result, errorMsg, isBatchRunning,
                 batchCount, scanWaitCount, isBatchRunningRef,
                 lastGradedNameRef, isRubricConfigured, rubricContent,
                 history, tasks, gradedInRun, ev, Fixed>>

\* the rubric drawer saves a text
SaveRubric ==
  /\ \E text \in RubricTexts : handleSaveRubric(text)
  /\ <<isRubricConfigured, rubricContent>>' # <<isRubricConfigured, rubricContent>>
  /\ UNCHANGED <<mode, status, pageContext, result, errorMsg, health,
                 isBatchRunning, batchCount, scanWaitCount, isBatchRunningRef,
                 lastGradedNameRef, history, tasks, gradedInRun, ev,
                 Fixed>>

Pending(kind) == {t \in BagToSet(tasks) : t.kind = kind}

Frame == UNCHANGED <<mode, health, isRubricConfigured, rubricContent, Fixed>>

\* a pending setTimeout(scanPage) fires
ScanTimerFires ==
  /\ \E t \in Pending("scanTimer"), tab \in TabOutcomes :
       Commit(scanPage(DelTask(Cur, t), t.cl, tab), "scanTimer", t.cl.mode)
  /\ Frame

\* the content script answers REQUEST_PAGE_DATA
ScanResponse ==
  /\ \E t \in Pending("scanReq"), resp \in Responses :
       Commit(onPageData(DelTask(Cur, t), t.cl, resp), "scanResp", t.cl.mode)
  /\ Frame

\* the AI call resolves
GradeResolves ==
  /\ \E t \in Pending("grading") :
       Commit(startGradingThen(DelTask(Cur, t), t.cl, t.ctx,
                               assessStudentAnswer(t.ctx.answerImageBase64)),
              "gradeOk", t.cl.mode)
  /\ Frame

\* the AI call rejects
GradeRejects ==
  /\ \E t \in Pending("grading") :
       Commit(startGradingCatch(DelTask(Cur, t), t.cl), "gradeFail", t.cl.mode)
  /\ Frame

\* the 800 ms auto-submit timer fires
SubmitTimerFires ==
  /\ \E t \in Pending("submitTimer"), hasTab \in BOOLEAN :
       Commit([handleSubmitScore(DelTask(Cur, t), t.cl, t.res.score, t.res.name,
                                 t.res.comment, hasTab)
                 EXCEPT !.out.res = t.res], "submitTimer", t.cl.mode)
  /\ Frame

\* ------------------------------------------------------------ specification
\* the panel right after mount: the mode effect of the first render has
\* issued its scan; no rubric is stored yet
MountClosure ==
  [mode |-> Trial, platform |-> NoPlatform, result |-> NoResult,
   isRubricConfigured |-> FALSE, currentRubric |-> ""]

PanelInit ==
  /\ mode = Trial
  /\ status = "scanning"
  /\ pageContext = NoCtx
  /\ result = NoResult
  /\ errorMsg = NoError
  /\ health = [api |-> FALSE, rubric |-> FALSE, pageLink |-> FALSE]
  /\ isBatchRunning = FALSE
  /\ batchCount = 0
  /\ scanWaitCount = 0
  /\ isBatchRunningRef = FALSE
  /\ lastGradedNameRef = NoName
  /\ rubricContent = ""
  /\ isRubricConfigured = FALSE
  /\ history = <<>>
  /\ nameVisible \in BOOLEAN
  /\ tasks = SetToBag({Task("scanReq", MountClosure, NoCtx, NoResult)})
  /\ gradedInRun = <<>>
  /\ ev = [op |-> "mount"] @@ [NoEffects EXCEPT !.req = TRUE]

Init == PanelInit /\ probe = NoProbe

Next ==
  \/ \E m \in {Trial, Batch} : SetMode(m)
  \/ ClickScan
  \/ ClickConfirm
  \/ ClickStart
  \/ ClickStop
  \/ checkSystemHealth
  \/ SaveRubric
  \/ ScanTimerFires
  \/ ScanResponse
  \/ GradeResolves
  \/ GradeRejects
  \/ SubmitTimerFires

Spec == Init /\ [][Next]_vars

\* the panel with two continuations pending at once
OverlapInit == PanelInit /\ nameVisible /\ probe = [fn |-> "overlap"]

OverlapSpec == OverlapInit /\ [][Next]_vars

\* ------------------------------------------------------------ tab switch
\* App renders GradingView only while the grading tab is active.  Leaving the
\* tab unmounts the view: its buttons and its health poll are gone, while
\* its refs and the closures of its pending timers, requests and AI calls
\* live on.  The model follows that instance after the unmount.
TabsInit == PanelInit /\ probe = [fn |-> "tabs", mounted |-> TRUE, running |-> FALSE]

\* the operator switches to the Analysis or Settings tab; the only cleanup
\* of the view is clearInterval of the health poll
LeaveGradingTab ==
  /\ probe.fn = "tabs" /\ probe.mounted
  /\ probe' = [probe EXCEPT !.mounted = FALSE, !.running = isBatchRunningRef]
  /\ ev' = [op |-> "unmount"] @@ NoEffects
  /\ UNCHANGED <<mode, status, pageContext, result, errorMsg, health,
                 isBatchRunning, batchCount, scanWaitCount, isBatchRunningRef,
                 lastGradedNameRef, isRubricConfigured, rubricContent,
                 history, nameVisible, tasks, gradedInRun>>

\* what can still happen once the view is unmounted
Background ==
  \/ ScanTimerFires
  \/ ScanResponse
  \/ GradeResolves
  \/ GradeRejects
  \/ SubmitTimerFires
  \/ SaveRubric

TabsNext ==
  \/ probe.mounted /\ Next
  \/ ~probe.mounted /\ Background
  \/ LeaveGradingTab

TabsSpec == TabsInit /\ [][TabsNext]_vars

\* ------------------------------------------------------------ history storage
\* recordHistory on its own, on stored lists up to the cap of 500 entries
panelVars ==
  <<mode, status, pageContext, result, errorMsg, health,
    isBatchRunning, batchCount, scanWaitCount,
    isBatchRunningRef, lastGradedNameRef,
    isRubricConfigured, rubricContent,
    history, nameVisible, tasks, gradedInRun, ev>>

\* the list found under 'grading_history': n entries, told apart by score
StoredList(n) == [i \in 1..n |-> [name |-> DefaultName, score |-> i, comment |-> i]]

StoredLengths == {0, 1, HISTORY_CAP - 1, HISTORY_CAP}

\* the closure's result (null or a graded result) and the submitted values
ProbeResults == {NoResult} \cup {assessStudentAnswer(s) : s \in Students}
ProbeScores == {0, 1}
ProbeNames == {RealName(s) : s \in Students}

HistoryInit ==
  /\ PanelInit
  /\ \E n \in StoredLengths :
       probe = [fn |-> "recordHistory", list |-> StoredList(n),
                before |-> StoredList(n), res |-> NoResult, score |-> 0,
                name |-> DefaultName, calls |-> 0]

RecordHistoryCall ==
  /\ probe.fn = "recordHistory"
  /\ probe.calls < MaxCalls
  /\ \E res \in ProbeResults, score \in ProbeScores, name \in ProbeNames :
       probe' = [fn |-> "recordHistory",
                 list |-> recordHistory(probe.list, res, score, name),
                 before |-> probe.list, res |-> res, score |-> score,
                 name |-> name, calls |-> probe.calls + 1]
  /\ UNCHANGED panelVars

HistoryNext == RecordHistoryCall

HistorySpec == HistoryInit /\ [][HistoryNext]_vars


\* ------------------------------------------------------------ claims
\* the last handler met a page-adapter failure with the running flag set
ScanFailedWhileRunning ==
  ev.fail \in {"throw", "noTab", "lastError", "failed"} /\ ev.running

\* C1: once the batch has been stopped, the auto-submit continuation sends no
\* FILL_SCORE: when the 800 ms timer fires with the running flag false,
\* nothing is sent to the page.
C1_NoFillAfterStop ==
  (ev.op = "submitTimer" /\ ~ev.running) => ev.fill = NoFill

\* C2: once the batch has been stopped, a scan timer that fires does not
\* re-enter the loop: it issues no REQUEST_PAGE_DATA.
C2_NoScanAfterStop ==
  (ev.op = "scanTimer" /\ ~ev.running) => ~ev.req

\* C3: a failed AI call while the loop is running leaves the running flag
\* false, status 'error' with a message, and schedules no further scan.
C3_GradeFailHalts ==
  (ev.op = "gradeFail" /\ ev.running) =>
    /\ ~isBatchRunningRef /\ ~isBatchRunning
    /\ status = "error" /\ errorMsg # NoError
    /\ ev.timers = 0 /\ ~ev.req /\ ev.ai = NoCall

C3_Witness == ev.op = "gradeFail" /\ ev.running

\* C4: after every page-adapter failure observed while the loop is running
\* (no active tab, lastError, response without data, thrown exception),
\* errorMsg is null, status is not 'error' and exactly one retry scan has
\* been scheduled.
C4_NoErrorOneRetry ==
  ScanFailedWhileRunning =>
    (errorMsg = NoError /\ status # "error" /\ ev.timers = 1)

\* what the failure path does guarantee: it clears errorMsg, leaves status
\* untouched and schedules exactly one retry, no request and no AI call
ScanFailureRetriedOnce ==
  [][ScanFailedWhileRunning' =>
       (errorMsg' = NoError /\ status' = status /\ ev'.timers = 1
        /\ ~ev'.req /\ ev'.ai = NoCall)]_vars

\* C5: while the loop is running, every scan that returns lastGradedName
\* adds one to waitAttempts and issues exactly one retry and no grading call;
\* the scan that returns another name sets waitAttempts to 0 and issues no
\* retry, and a grading call starts only with waitAttempts at 0.  Hence N
\* repeats cost exactly N retries, counted 1..N, before grading starts.
C5_WaitThenGrade ==
  [][(ev'.op = "scanResp" /\ ev'.scanned # NoSheet /\ ev'.running
      /\ tasks' # tasks) =>
       IF scrapeName(ev'.scanned, nameVisible) = lastGradedNameRef
         THEN /\ scanWaitCount' = scanWaitCount + 1
              /\ ev'.timers = 1 /\ ev'.ai = NoCall
              /\ Pending("grading")' = Pending("grading")
         ELSE /\ scanWaitCount' = 0
              /\ ev'.timers = 0
              /\ ev'.ai # NoCall \/ ~isBatchRunningRef']_vars

\* the second consecutive wait for the page to leave the graded student
C5_Witness ==
  /\ ev.op = "scanResp" /\ ev.running /\ ev.scanned # NoSheet
  /\ scrapeName(ev.scanned, nameVisible) = lastGradedNameRef
  /\ scanWaitCount = 2

\* C6: after a successful grade with the loop still running, the auto-submit
\* sends one FILL_SCORE carrying the graded score, records the student as
\* lastGradedName and schedules exactly one next scan.
C6_OneAutoSubmit ==
  (ev.op = "submitTimer" /\ ev.running /\ ev.hasTab) =>
    /\ ev.fill # NoFill /\ ev.fill.score = ev.res.score
    /\ lastGradedNameRef = ev.res.name
    /\ ev.timers = 1

\* C7: right after an auto-submit the newest history entry is the submitted
\* student's own result: that name and score with that answer's comment.
C7_HistoryOwnResult ==
  (ev.op = "submitTimer" /\ ev.fill # NoFill) =>
    (history # <<>> /\ history[1] = ev.res)

\* C8: within one batch run no AI grading call is started for a student who
\* was already graded (auto-submitted) in that run.
C8_NoRegrade ==
  (ev.ai # NoCall /\ ev.running) => ev.ai.answer \notin Range(gradedInRun)

\* C9: a running loop that receives a successful scan of a student other
\* than the one graded last resets waitAttempts and starts grading.
C9_NewStudentGraded ==
  (ev.op = "scanResp" /\ ev.running /\ ev.scanned # NoSheet
   /\ gradedInRun # <<>> /\ ev.scanned # gradedInRun[Len(gradedInRun)]) =>
    (scanWaitCount = 0 /\ ev.ai # NoCall)

\* C10: in Trial mode a FILL_SCORE is sent only by the confirm button.
C10_TrialOnlyConfirm ==
  (mode = Trial /\ ev.fill # NoFill) => ev.op = "confirm"

\* ------------------------------------------------------------ score fill
\* tryFillScore of the content script on its own, on pages where some of the
\* configured selectors match an element.  Selector texts are written
\* without their inner quotes, and "fen" stands for the character "分".
SCORE_INPUT_CONFIGS(platform) ==
  CASE platform = "ZHIXUE" ->
         <<".score-input", ".score-box input", ".postil-score input",
           "input[ng-model=score]", ".mark-input">>
    [] platform = "HAOFENSHU" ->
         <<"#scoreInput", ".js-score-input", ".input-score",
           "input[type=number].mark-input">>
    [] platform = "GENERIC" ->
         <<"input[type=number]", "input.score", "input.mark",
           "input[placeholder*=fen]", "input[placeholder*=score]">>
    [] OTHER -> <<>>

ScoreSelectors ==
  UNION {Range(SCORE_INPUT_CONFIGS(pf)) : pf \in {"ZHIXUE", "HAOFENSHU", "GENERIC"}}

\* selectors that name no tag: they can match an element that is no <input>
TaglessSelectors ==
  {".score-input", ".mark-input", "#scoreInput", ".js-score-input", ".input-score"}

NoElement == [none |-> "element"]

\* the element document.querySelector(sel) returns: visible means
\* offsetParent !== null
Element(sel, visible, tag) == [sel |-> sel, visible |-> visible, tag |-> tag]

ElementsFor(sel) ==
  {Element(sel, v, t) : v \in BOOLEAN,
                        t \in IF sel \in TaglessSelectors THEN {"INPUT", "DIV"}
                                                          ELSE {"INPUT"}}

\* document.activeElement
ActiveElement(tag) == Element("activeElement", TRUE, tag)
ActiveTags == {"INPUT", "TEXTAREA", "BODY"}

\* pages: what each selector finds, and the tag of the focused element
PagesOn(M) ==
  {[sel \in ScoreSelectors |-> IF sel \in M THEN f[sel] ELSE NoElement] :
     f \in {g \in [M -> UNION {ElementsFor(sel) : sel \in M}] :
              \A sel \in M : g[sel] \in ElementsFor(sel)}}

Pages ==
  UNION {PagesOn(M) : M \in {X \in SUBSET ScoreSelectors : Cardinality(X) <= MaxMatches}}

\* the for loop over the selectors: input is overwritten by every query and
\* the loop leaves at the first visible match
RECURSIVE selectorLoop(_, _, _)
selectorLoop(selectors, found, input) ==
  IF selectors = <<>>
    THEN input
    ELSE LET next == found[Head(selectors)]
         IN IF next # NoElement /\ next.visible
              THEN next
              ELSE selectorLoop(Tail(selectors), found, next)

\* mutant: the blur event is forgotten
fillEvents_NoBlur == <<"input", "change", "keydown:Enter">>

\* the events dispatched on the input after its value was set
fillEvents == <<"input", "change", "blur", "keydown:Enter">>

NoAnswer == [none |-> "answer"]

\* the platform list followed by the generic list
selectorsFor(platformHint) ==
  LET platform == IF platformHint = NoPlatform THEN detectPlatform ELSE platformHint
  IN SCORE_INPUT_CONFIGS(platform) \o SCORE_INPUT_CONFIGS("GENERIC")

\* steps 3 to 5 of tryFillScore on the element chosen
fillInput(input, score) ==
  IF input = NoElement
    THEN [target |-> NoElement, log |-> <<>>,
          answer |-> [success |-> FALSE, error |-> "no visible score input"]]
    ELSE IF input.tag # "INPUT"
           \* the native setter of HTMLInputElement throws on another element
           THEN [target |-> input, log |-> <<>>,
                 answer |-> [success |-> FALSE, error |-> "exception on the input"]]
           ELSE [target |-> input,
                 log |-> <<[op |-> "nativeSet", value |-> score]>> \o
                         [i \in 1..Len(fillEvents) |-> [op |-> fillEvents[i]]],
                 answer |-> [success |-> TRUE]]

\* mutant: the focus fallback takes the active element whatever its tag
tryFillScore_AnyFocus(score, platformHint, found, activeTag) ==
  LET matched == selectorLoop(selectorsFor(platformHint), found, NoElement)
      input == IF matched = NoElement /\ activeTag # "BODY"
                 THEN ActiveElement("INPUT") ELSE matched
  IN fillInput(input, score)

\* tryFillScore: target is the element written to, log the operations on it
tryFillScore(score, platformHint, found, activeTag) ==
  LET matched == selectorLoop(selectorsFor(platformHint), found, NoElement)
      input == IF matched = NoElement /\ activeTag = "INPUT"
                 THEN ActiveElement(activeTag) ELSE matched
  IN fillInput(input, score)

PlatformHints == {"ZHIXUE", "HAOFENSHU", "GENERIC", "DEV_MOCK", NoPlatform}

FillInit ==
  /\ PanelInit
  /\ \E score \in ProbeScores, hint \in PlatformHints, found \in Pages,
        tag \in ActiveTags :
       probe = [fn |-> "tryFillScore", score |-> score, platform |-> hint,
                found |-> found, activeTag |-> tag, out |-> NoAnswer]

\* the FILL_SCORE branch of the message listener answers with the result
FillScoreMessage ==
  /\ probe.fn = "tryFillScore"
  /\ probe.out = NoAnswer
  /\ probe' = [probe EXCEPT !.out = tryFillScore(probe.score, probe.platform,
                                                 probe.found, probe.activeTag)]
  /\ UNCHANGED panelVars

FillNext == FillScoreMessage

FillSpec == FillInit /\ [][FillNext]_vars

\* ------------------------------------------------------------ provider service
\* src/services/geminiService.ts on its own: the stored configuration, and
\* rubric generation and scoring against every reply of the provider
Providers == {"google", "openai", "zhipu"}
Strategies == {"flash", "pro", "reasoning"}

DEFAULT_CONFIG ==
  [provider |-> "google", endpoint |-> "", modelName |-> "gemini-2.5-flash",
   apiKey |-> ""]

\* the AppConfig records the settings page can hand to saveAppConfig
Configs ==
  [provider : Providers, endpoint : {"", "https://llm.example/v1"},
   modelName : {"gemini-2.5-flash", "custom-model"}, apiKey : {"", "sk-config"}]

\* process.env.API_KEY, "" when the build defines none
EnvKeys == {"", "sk-env"}

NoItem == [none |-> "item"]
NoConfig == [none |-> "config"]
NoClient == [none |-> "client"]
NoThinking == [none |-> "thinkingConfig"]
NoOutcome == [none |-> "outcome"]
NoValue == [none |-> "value"]

\* JSON.stringify of an AppConfig: the text lists the keys with their values
JSON_stringify(config) ==
  [text |-> <<<<"provider", config.provider>>, <<"endpoint", config.endpoint>>,
              <<"modelName", config.modelName>>, <<"apiKey", config.apiKey>>>>]

\* JSON.parse of such a text: an object with the keys the text lists
JSON_parse(item) ==
  LET t == item.text
  IN [k \in {t[i][1] : i \in 1..Len(t)} |->
        t[CHOOSE i \in 1..Len(t) : t[i][1] = k][2]]

saveAppConfig(config) == JSON_stringify(config)

\* mutant: an empty stored key is replaced by the environment key
getAppConfig_EnvKey(item, envKey) ==
  IF item # NoItem
    THEN [JSON_parse(item) EXCEPT !.apiKey = IF @ = "" THEN envKey ELSE @]
    ELSE [DEFAULT_CONFIG EXCEPT !.apiKey = envKey]

getAppConfig(item, envKey) ==
  IF item # NoItem
    THEN JSON_parse(item)
    ELSE [DEFAULT_CONFIG EXCEPT !.apiKey = envKey]

getGoogleClient(apiKeyOverride, envKey) ==
  LET apiKey == IF apiKeyOverride # "" THEN apiKeyOverride ELSE envKey
  IN IF apiKey = "" THEN NoClient ELSE [apiKey |-> apiKey]

\* mutant: the pro strategy is served by the flash model
getModelName_ProIsFlash(strategy, config) ==
  IF config.provider # "google"
    THEN config.modelName
    ELSE IF strategy = "reasoning" THEN "gemini-3-pro-preview"
                                   ELSE "gemini-2.5-flash"

getModelName(strategy, config) ==
  IF config.provider # "google"
    THEN config.modelName
    ELSE IF strategy \in {"reasoning", "pro"} THEN "gemini-3-pro-preview"
                                              ELSE "gemini-2.5-flash"

\* what the model wrote: nothing, prose, or the JSON text of an object
JsonFull == [score |-> 1, maxScore |-> 10, comment |-> "ok", breakdown |-> <<>>]
JsonPartial == [comment |-> "ok"]
EmptyObject == [k \in {} |-> k]

Contents ==
  {[kind |-> "empty"], [kind |-> "prose"],
   [kind |-> "json", obj |-> JsonFull], [kind |-> "json", obj |-> JsonPartial]}

\* the HTTP body: not JSON at all, JSON without choices (an error object), or
\* JSON whose first choice carries the content
Bodies ==
  {[parseable |-> FALSE], [parseable |-> TRUE, hasChoices |-> FALSE]} \cup
  {[parseable |-> TRUE, hasChoices |-> TRUE, content |-> c] : c \in Contents}

Replies ==
  {[transport |-> "error"]} \cup
  {[transport |-> "ok", status |-> st, body |-> b] : st \in {200, 401}, b \in Bodies}

responseOk(reply) == reply.status \in 200..299

\* data.choices?.[0]?.message?.content, response.text: undefined without choices
contentOf(body) == IF body.hasChoices THEN body.content ELSE [kind |-> "empty"]

\* the SDK call ai.models.generateContent rejects on a transport error, on an
\* error status and on a body it cannot read
sdkRejects(reply) ==
  reply.transport = "error" \/ ~responseOk(reply) \/ ~reply.body.parseable

Rejected(requests) == [requests |-> requests, outcome |-> "rejected", value |-> NoValue]
Resolved(requests, value) == [requests |-> requests, outcome |-> "resolved", value |-> value]

fetchRequest(config) ==
  [to |-> config.endpoint, model |-> config.modelName, auth |-> config.apiKey,
   thinking |-> NoThinking]

callOpenAICompatible(config, reply) ==
  LET requests == <<fetchRequest(config)>>
  IN IF reply.transport = "error" THEN Rejected(requests)
     ELSE IF ~responseOk(reply) THEN Rejected(requests)
     ELSE IF ~reply.body.parseable THEN Rejected(requests)
     ELSE Resolved(requests, contentOf(reply.body))

\* text || fallback
orFallback(content, fallback) ==
  IF content.kind = "empty" THEN [kind |-> "fallback", text |-> fallback] ELSE content

generateRubricFromImages(config, envKey, reply) ==
  IF config.provider = "google"
    THEN LET ai == getGoogleClient(config.apiKey, envKey)
             requests == <<[to |-> "google", model |-> "gemini-3-pro-preview",
                            auth |-> ai.apiKey,
                            thinking |-> [thinkingBudget |-> 4096]]>>
         IN IF ai = NoClient THEN Rejected(<<>>)
            ELSE IF sdkRejects(reply) THEN Rejected(requests)
            ELSE Resolved(requests, orFallback(contentOf(reply.body),
                                               "rubric generation failed"))
    ELSE LET requests == <<fetchRequest(config)>>
         IN IF reply.transport = "error" THEN Rejected(requests)
            ELSE IF ~reply.body.parseable THEN Rejected(requests)
            ELSE Resolved(requests, orFallback(contentOf(reply.body),
                                               "generation failed"))

\* {id, name, className, ...parsed}
asStudentResult(parsed) ==
  parsed @@ [id |-> "now", name |-> "auto", className |-> "auto"]

\* the scoring call with its transport: requests issued, outcome, value
assessStudentAnswerCall(config, envKey, strategy, reply) ==
  IF config.provider = "google"
    THEN LET ai == getGoogleClient(config.apiKey, envKey)
             thinking == IF strategy = "reasoning" THEN [thinkingBudget |-> 16384]
                         ELSE IF strategy = "pro" THEN [thinkingBudget |-> 2048]
                         ELSE NoThinking
             requests == <<[to |-> "google", model |-> getModelName(strategy, config),
                            auth |-> ai.apiKey, thinking |-> thinking]>>
             text == contentOf(reply.body)
         IN IF ai = NoClient THEN Rejected(<<>>)
            ELSE IF sdkRejects(reply) THEN Rejected(requests)
            ELSE IF text.kind = "empty"
                   THEN Resolved(requests, asStudentResult(EmptyObject))
            ELSE IF text.kind = "json"
                   THEN Resolved(requests, asStudentResult(text.obj))
            ELSE Rejected(requests)
    ELSE LET r == callOpenAICompatible(config, reply)
         IN IF r.outcome = "rejected" THEN r
            ELSE IF r.value.kind = "json"
                   THEN Resolved(r.requests, asStudentResult(r.value.obj))
            ELSE Rejected(r.requests)

ServiceInit ==
  /\ PanelInit
  /\ \E envKey \in EnvKeys :
       probe = [fn |-> "service", item |-> NoItem, envKey |-> envKey,
                saved |-> NoConfig, loaded |-> NoConfig, call |-> NoOutcome]

\* the settings page saves a configuration
SaveConfig ==
  /\ probe.fn = "service"
  /\ \E config \in Configs :
       probe' = [probe EXCEPT !.item = saveAppConfig(config), !.saved = config,
                              !.loaded = NoConfig, !.call = NoOutcome]
  /\ UNCHANGED panelVars

LoadConfig ==
  /\ probe.fn = "service"
  /\ probe.loaded = NoConfig
  /\ probe' = [probe EXCEPT !.loaded = getAppConfig(probe.item, probe.envKey)]
  /\ UNCHANGED panelVars

GenerateRubricCall ==
  /\ probe.fn = "service"
  /\ probe.call = NoOutcome
  /\ \E reply \in Replies :
       LET config == getAppConfig(probe.item, probe.envKey)
       IN probe' = [probe EXCEPT !.call =
            [fn |-> "generateRubric", config |-> config, strategy |-> "flash",
             reply |-> reply,
             out |-> generateRubricFromImages(config, probe.envKey, reply)]]
  /\ UNCHANGED panelVars

AssessCall ==
  /\ probe.fn = "service"
  /\ probe.call = NoOutcome
  /\ \E reply \in Replies, strategy \in Strategies :
       LET config == getAppConfig(probe.item, probe.envKey)
       IN probe' = [probe EXCEPT !.call =
            [fn |-> "assess", config |-> config, strategy |-> strategy,
             reply |-> reply,
             out |-> assessStudentAnswerCall(config, probe.envKey, strategy, reply)]]
  /\ UNCHANGED panelVars

ServiceNext ==
  \/ SaveConfig
  \/ LoadConfig
  \/ GenerateRubricCall
  \/ AssessCall

ServiceSpec == ServiceInit /\ [][ServiceNext]_vars

\* the entry the last recordHistory call built from its arguments
ProbeItem == [probe.res EXCEPT !.score = probe.score, !.name = probe.name]

Recorded == probe.fn = "recordHistory" /\ probe.calls > 0 /\ probe.res # NoResult

\* C11: the stored list never exceeds 500 entries, and an insert into a list
\* of exactly 500 removes exactly the oldest (last) entry and keeps the rest.
C11_HistoryCapped ==
  probe.fn = "recordHistory" =>
    /\ Len(probe.list) <= HISTORY_CAP
    /\ (Recorded /\ Len(probe.before) = HISTORY_CAP) =>
         probe.list = <<ProbeItem>> \o SubSeq(probe.before, 1, HISTORY_CAP - 1)

C11_Witness == Recorded /\ Len(probe.before) = HISTORY_CAP

\* C12: after a record with a non-null result the new entry is first, carries
\* the submitted score and name, and the earlier entries follow in order.
C12_NewestFirst ==
  Recorded =>
    /\ probe.list[1].score = probe.score
    /\ probe.list[1].name = probe.name
    /\ Len(probe.list) = IF Len(probe.before) < HISTORY_CAP
                           THEN Len(probe.before) + 1 ELSE HISTORY_CAP
    /\ SubSeq(probe.list, 2, Len(probe.list)) =
         SubSeq(probe.before, 1, Len(probe.list) - 1)

C12_Witness == Recorded /\ Len(probe.before) = 1 /\ Len(probe.list) = 2

Filled == probe.fn = "tryFillScore" /\ probe.out # NoAnswer

\* what the configured selectors of the request find
FoundBy == {probe.found[sel] : sel \in Range(selectorsFor(probe.platform))}

NoVisibleMatch == \A e \in FoundBy : e = NoElement \/ ~e.visible

\* C13: when no configured selector matches a visible element, tryFillScore
\* writes into the focused input if there is one and into nothing else; it
\* never writes into a matched element that is not visible.
C13_FocusFallback ==
  (Filled /\ NoVisibleMatch) =>
    /\ probe.out.target \in {NoElement, ActiveElement("INPUT")}
    /\ probe.activeTag = "INPUT" =>
         (probe.out.target = ActiveElement("INPUT") /\ probe.out.answer.success)

\* C14: on a target input the value is set through the native setter first,
\* then input, change, blur and keydown(Enter) are dispatched once each in
\* this order, and the answer is success.
C14_SetThenEvents ==
  (Filled /\ probe.out.target # NoElement /\ probe.out.target.tag = "INPUT") =>
    /\ probe.out.log = <<[op |-> "nativeSet", value |-> probe.score],
                         [op |-> "input"], [op |-> "change"], [op |-> "blur"],
                         [op |-> "keydown:Enter"]>>
    /\ probe.out.answer = [success |-> TRUE]

C14_Witness ==
  /\ Filled /\ probe.out.target \in FoundBy
  /\ probe.out.target # NoElement /\ probe.out.target.tag = "INPUT"

\* C15: with no selector match and no focused input the answer is
\* {success: false} with an error, no value is set and no event dispatched;
\* every answer is a success or carries an error.
C15_NoTargetFails ==
  Filled =>
    /\ (FoundBy = {NoElement} /\ probe.activeTag # "INPUT") =>
         /\ probe.out.target = NoElement /\ probe.out.log = <<>>
         /\ probe.out.answer.success = FALSE /\ probe.out.answer.error # ""
    /\ probe.out.answer.success \in BOOLEAN
    /\ ~probe.out.answer.success =>
         ("error" \in DOMAIN probe.out.answer /\ probe.out.log = <<>>)

C15_Witness ==
  /\ Filled /\ FoundBy = {NoElement} /\ probe.activeTag = "TEXTAREA"
  /\ ~probe.out.answer.success

Called == probe.fn = "service" /\ probe.call # NoOutcome

\* C16: getAppConfig after saveAppConfig(c) returns the provider, endpoint,
\* modelName and apiKey of c.
C16_ConfigRoundTrip ==
  (probe.fn = "service" /\ probe.saved # NoConfig /\ probe.loaded # NoConfig) =>
    /\ probe.loaded.provider = probe.saved.provider
    /\ probe.loaded.endpoint = probe.saved.endpoint
    /\ probe.loaded.modelName = probe.saved.modelName
    /\ probe.loaded.apiKey = probe.saved.apiKey

\* a configuration without a key reloaded where the environment has one
C16_Witness ==
  /\ probe.fn = "service" /\ probe.saved # NoConfig /\ probe.loaded # NoConfig
  /\ probe.saved.apiKey = "" /\ probe.envKey # ""

\* C17: in rubric generation and in scoring, a transport error, a non-2xx
\* response and an unparseable body all end in a rejected call.
C17_FailuresPropagate ==
  (Called /\ (\/ probe.call.reply.transport = "error"
              \/ ~responseOk(probe.call.reply)
              \/ ~probe.call.reply.body.parseable)) =>
    probe.call.out.outcome = "rejected"

\* C18: with an empty key in the configuration and none in the environment,
\* rubric generation and scoring fail without any outbound request.
C18_NoKeyNoRequest ==
  (Called /\ probe.call.config.apiKey = "" /\ probe.envKey = "") =>
    (probe.call.out.requests = <<>> /\ probe.call.out.outcome = "rejected")

\* C19: every result assessStudentAnswer resolves with has score, maxScore,
\* comment and breakdown.
C19_ResultShape ==
  (Called /\ probe.call.fn = "assess" /\ probe.call.out.outcome = "resolved") =>
    {"score", "maxScore", "comment", "breakdown"} \subseteq
      DOMAIN probe.call.out.value

\* C20: scoring asks the google provider for gemini-2.5-flash without a
\* thinking budget (flash), gemini-3-pro-preview with 2048 (pro) or with
\* 16384 (reasoning); any other provider for the configured modelName.
C20_StrategyModel ==
  (Called /\ probe.call.fn = "assess" /\ probe.call.out.requests # <<>>) =>
    LET request == probe.call.out.requests[1]
        strategy == probe.call.strategy
    IN /\ Len(probe.call.out.requests) = 1
       /\ IF probe.call.config.provider = "google"
            THEN /\ strategy = "flash" =>
                      /\ request.model = "gemini-2.5-flash"
                      /\ request.thinking = NoThinking
                 /\ strategy = "pro" =>
                      /\ request.model = "gemini-3-pro-preview"
                      /\ request.thinking = [thinkingBudget |-> 2048]
                 /\ strategy = "reasoning" =>
                      /\ request.model = "gemini-3-pro-preview"
                      /\ request.thinking = [thinkingBudget |-> 16384]
            ELSE /\ request.model = probe.call.config.modelName
                 /\ request.thinking = NoThinking

C20_Witness ==
  /\ Called /\ probe.call.fn = "assess" /\ probe.call.out.requests # <<>>
  /\ probe.call.config.provider = "google" /\ probe.call.strategy = "pro"
  /\ probe.call.config.modelName = "custom-model"

\* ------------------------------------------------------------ platform detection
\* window.location.hostname as the sequence of its fragments: a needle of
\* detectPlatform occurs in a hostname exactly when it is one of the fragments
HostFragments == {"zhixue", "haofenshu", "7net", "www", "example"}

Hostnames ==
  UNION {[1..n -> HostFragments] : n \in 0..MaxFragments}

\* host.includes(needle)
includes(host, needle) == \E i \in 1..Len(host) : host[i] = needle

\* mutant: the haofenshu test comes first
detectPlatformOf_HaofenshuFirst(host) ==
  IF includes(host, "haofenshu") \/ includes(host, "7net") THEN "HAOFENSHU"
  ELSE IF includes(host, "zhixue") THEN "ZHIXUE"
  ELSE "GENERIC"

\* detectPlatform on the page whose hostname is host
detectPlatformOf(host) ==
  IF includes(host, "zhixue") THEN "ZHIXUE"
  ELSE IF includes(host, "haofenshu") \/ includes(host, "7net") THEN "HAOFENSHU"
  ELSE "GENERIC"

PlatformInit ==
  /\ PanelInit
  /\ \E host \in Hostnames :
       probe = [fn |-> "detectPlatform", host |-> host, platform |-> NoPlatform]

DetectPlatformCall ==
  /\ probe.fn = "detectPlatform"
  /\ probe.platform = NoPlatform
  /\ probe' = [probe EXCEPT !.platform = detectPlatformOf(probe.host)]
  /\ UNCHANGED panelVars

PlatformNext == DetectPlatformCall

PlatformSpec == PlatformInit /\ [][PlatformNext]_vars

\* C27: detectPlatform answers ZHIXUE when the hostname contains 'zhixue',
\* otherwise HAOFENSHU when it contains 'haofenshu' or '7net', otherwise
\* GENERIC, and so exactly one of the three tags for every hostname.
C27_PlatformByHost ==
  (probe.fn = "detectPlatform" /\ probe.platform # NoPlatform) =>
    /\ probe.platform \in {"ZHIXUE", "HAOFENSHU", "GENERIC"}
    /\ probe.platform = "ZHIXUE" <=> "zhixue" \in Range(probe.host)
    /\ probe.platform = "HAOFENSHU" <=>
         /\ "zhixue" \notin Range(probe.host)
         /\ Range(probe.host) \cap {"haofenshu", "7net"} # {}
    /\ probe.platform = "GENERIC" <=>
         Range(probe.host) \cap {"zhixue", "haofenshu", "7net"} = {}

\* a hostname that names both platforms
C27_Witness ==
  /\ probe.fn = "detectPlatform" /\ probe.platform = "ZHIXUE"
  /\ {"zhixue", "7net"} \subseteq Range(probe.host)

\* ------------------------------------------------------------ page scrape
\* scrapeData of the content script on its own, on pages of a few elements.
\* Selector texts are written without their inner quotes.
SELECTOR_CONFIGS(platform) ==
  CASE platform = "ZHIXUE" ->
         <<".paper-img-container img", "#paperImg", ".answer-sheet img",
           ".img-box img">>
    [] platform = "HAOFENSHU" ->
         <<"#canvas_paper", ".mark-img-wrap img", ".stu-paper img">>
    [] platform = "GENERIC" -> <<"canvas", "img[src^=blob:]", "img">>
    [] OTHER -> <<>>

MIN_SIZE == 200

\* selectors only an <img> can match, and selectors any element can match
ImgOnlySelectors ==
  {".paper-img-container img", ".answer-sheet img", ".img-box img",
   ".mark-img-wrap img", ".stu-paper img", "img[src^=blob:]"}
IdSelectors == {"#paperImg", "#canvas_paper"}
NoSelector == "<none>"

\* getBoundingClientRect of an element
Rects ==
  {[width |-> 100, height |-> 300], [width |-> 300, height |-> 100],
   [width |-> 200, height |-> 200], [width |-> 200, height |-> 300],
   [width |-> 300, height |-> 300]}

\* the elements a page of the platform can hold: an <img>, a <canvas> or a
\* container (.paper-container, .img-view, .answer-card), which may also be
\* what one selector of the platform's list names
PageElements(platform) ==
  {e \in [tag : {"IMG", "CANVAS", "DIV"},
          sel : {NoSelector} \cup
                {x \in Range(SELECTOR_CONFIGS(platform)) :
                   x \in IdSelectors \/ x \in ImgOnlySelectors},
          rect : Rects] :
     e.sel \in ImgOnlySelectors => e.tag = "IMG"}

\* the document, in document order
ScrapePages(platform) ==
  UNION {[1..n -> PageElements(platform)] : n \in 0..MaxElements}

\* element.matches(sel)
matches(el, sel) ==
  \/ el.sel = sel
  \/ sel = "img" /\ el.tag = "IMG"
  \/ sel = "canvas" /\ el.tag = "CANVAS"

\* document.querySelector(sel): the position of the first match, 0 for null
querySelector(page, sel) ==
  IF \E i \in 1..Len(page) : matches(page[i], sel)
    THEN CHOOSE i \in 1..Len(page) :
           /\ matches(page[i], sel)
           /\ \A j \in 1..(i - 1) : ~matches(page[j], sel)
    ELSE 0

\* Array.from(document.querySelectorAll(tag)) as positions
RECURSIVE querySelectorAll(_, _, _)
querySelectorAll(page, tag, from) ==
  IF from > Len(page) THEN <<>>
  ELSE IF page[from].tag = tag
         THEN <<from>> \o querySelectorAll(page, tag, from + 1)
         ELSE querySelectorAll(page, tag, from + 1)

\* the forEach of findLargestImageElement
RECURSIVE largestLoop(_, _, _, _)
largestLoop(candidates, page, maxArea, bestEl) ==
  IF candidates = <<>>
    THEN bestEl
    ELSE LET rect == page[Head(candidates)].rect
             area == rect.width * rect.height
         IN IF rect.width < MIN_SIZE \/ rect.height < MIN_SIZE
              THEN largestLoop(Tail(candidates), page, maxArea, bestEl)
              ELSE IF area > maxArea
                     THEN largestLoop(Tail(candidates), page, area, Head(candidates))
                     ELSE largestLoop(Tail(candidates), page, maxArea, bestEl)

findLargestImageElement(page) ==
  largestLoop(querySelectorAll(page, "IMG", 1) \o querySelectorAll(page, "CANVAS", 1)
                \o querySelectorAll(page, "DIV", 1), page, 0, 0)

\* the for loop over the platform's selectors: the first selector that
\* matches gives the target
RECURSIVE imageLoop(_, _)
imageLoop(selectors, page) ==
  IF selectors = <<>>
    THEN 0
    ELSE IF querySelector(page, Head(selectors)) # 0
           THEN querySelector(page, Head(selectors))
           ELSE imageLoop(Tail(selectors), page)

\* mutant: the largest element is preferred to the configured selectors
locateTarget_LargestFirst(platform, page) ==
  IF findLargestImageElement(page) # 0
    THEN findLargestImageElement(page)
    ELSE imageLoop(SELECTOR_CONFIGS(platform), page)

\* step 2 of scrapeData: the position of targetEl, 0 for null
locateTarget(platform, page) ==
  IF imageLoop(SELECTOR_CONFIGS(platform), page) # 0
    THEN imageLoop(SELECTOR_CONFIGS(platform), page)
    ELSE findLargestImageElement(page)

\* what getCanvasBase64 / getUrlBase64 come to on the target: image data, an
\* empty string after the comma, null (export or fetch failed, no background
\* image), or a rejected promise (the FileReader fails: the promise returned
\* inside the try block is not awaited there)
Extractions(tag) ==
  IF tag = "CANVAS" THEN {"data", "empty", "failed"}
                    ELSE {"data", "empty", "failed", "rejected"}

\* the text of the first name label, NoName when no label is found
NameLabels == {NoName, " ", "A"}

MsgNoTarget == "no answer sheet in view"
MsgNoData == "element located but no image data"

\* scrapeData with its page: how the promise settles, the target, the value
scrapeDataCall(host, page, label, extraction) ==
  LET platform == detectPlatformOf(host)
      studentName == IF label = NoName \/ trim(label) = "" THEN DefaultName
                                                           ELSE trim(label)
      targetEl == locateTarget(platform, page)
  IN IF targetEl = 0
       THEN [settled |-> "resolved", target |-> 0,
             value |-> [error |-> MsgNoTarget]]
     ELSE IF extraction = "rejected"
       THEN [settled |-> "rejected", target |-> targetEl, value |-> NoValue]
     ELSE IF extraction # "data"
       THEN [settled |-> "resolved", target |-> targetEl,
             value |-> [error |-> MsgNoData]]
     ELSE [settled |-> "resolved", target |-> targetEl,
           value |-> [platform |-> platform, studentName |-> studentName,
                      answerImageBase64 |-> "base64"]]

\* the REQUEST_PAGE_DATA branch of the listener: scrapeData().then(...)
pageDataResponses(scraped) ==
  IF scraped.settled = "rejected"
    THEN <<>>
    ELSE IF "error" \notin DOMAIN scraped.value
           THEN <<[success |-> TRUE, data |-> scraped.value]>>
           ELSE <<[success |-> FALSE, error |-> scraped.value.error]>>

\* the for loop of checkReady: found is set at the first selector that matches
RECURSIVE readyLoop(_, _)
readyLoop(selectors, page) ==
  IF selectors = <<>>
    THEN FALSE
    ELSE IF querySelector(page, Head(selectors)) # 0
           THEN TRUE
           ELSE readyLoop(Tail(selectors), page)

\* mutant: the readiness check looks at the configured selectors only
checkReady_SelectorsOnly(host, page) ==
  [success |-> TRUE,
   hasImage |-> readyLoop(SELECTOR_CONFIGS(detectPlatformOf(host)), page),
   platform |-> detectPlatformOf(host)]

\* checkReady: no data is extracted, only the presence of an element
checkReady(host, page) ==
  LET platform == detectPlatformOf(host)
      bySelector == readyLoop(SELECTOR_CONFIGS(platform), page)
      found == IF ~bySelector THEN findLargestImageElement(page) # 0 ELSE TRUE
  IN [success |-> TRUE, hasImage |-> found, platform |-> platform]

ScrapeHosts == {h \in Hostnames : Len(h) <= 1}

ScrapeInit ==
  /\ PanelInit
  /\ \E host \in ScrapeHosts, label \in NameLabels :
       \E page \in ScrapePages(detectPlatformOf(host)) :
         probe = [fn |-> "scrapeData", host |-> host, page |-> page,
                  label |-> label, extraction |-> "none", out |-> NoAnswer,
                  responses |-> <<>>, ready |-> NoAnswer]

RequestPageData ==
  /\ probe.fn = "scrapeData"
  /\ probe.out = NoAnswer
  /\ \E extraction \in {"data", "empty", "failed", "rejected"} :
       LET out == scrapeDataCall(probe.host, probe.page, probe.label, extraction)
       IN /\ out.target # 0 => extraction \in Extractions(probe.page[out.target].tag)
          /\ out.target = 0 => extraction = "data"
          /\ probe' = [probe EXCEPT !.extraction = extraction, !.out = out,
                                    !.responses = pageDataResponses(out)]
  /\ UNCHANGED panelVars

\* the CHECK_READY branch of the listener: sendResponse(checkReady())
CheckReady ==
  /\ probe.fn = "scrapeData"
  /\ probe.ready = NoAnswer
  /\ probe' = [probe EXCEPT !.ready = checkReady(probe.host, probe.page)]
  /\ UNCHANGED panelVars

ScrapeNext == RequestPageData \/ CheckReady

ScrapeSpec == ScrapeInit /\ [][ScrapeNext]_vars

Scraped == probe.fn = "scrapeData" /\ probe.out # NoAnswer

\* the selectors of the platform's list that match some element of the page
MatchingSelectors ==
  {i \in 1..Len(SELECTOR_CONFIGS(detectPlatformOf(probe.host))) :
     \E k \in 1..Len(probe.page) :
       matches(probe.page[k], SELECTOR_CONFIGS(detectPlatformOf(probe.host))[i])}

\* the elements the heuristic accepts: both dimensions at least 200
LargeEnough ==
  {k \in 1..Len(probe.page) :
     probe.page[k].rect.width >= 200 /\ probe.page[k].rect.height >= 200}

Area(k) == probe.page[k].rect.width * probe.page[k].rect.height

\* C25: the answer element is the first element matched by the first
\* selector of the platform's list that matches anything; only when no
\* selector of the list matches is it a largest element among those of both
\* dimensions at least 200; when there is neither, scrapeData returns an
\* error and no data.
C25_TargetChoice ==
  Scraped =>
    LET sels == SELECTOR_CONFIGS(detectPlatformOf(probe.host))
        t == probe.out.target
    IN IF MatchingSelectors # {}
         THEN LET i == CHOOSE i \in MatchingSelectors :
                         \A j \in MatchingSelectors : i <= j
              IN /\ t # 0 /\ matches(probe.page[t], sels[i])
                 /\ \A k \in 1..(t - 1) : ~matches(probe.page[k], sels[i])
         ELSE IF LargeEnough # {}
                THEN /\ t \in LargeEnough
                     /\ \A k \in LargeEnough : Area(k) <= Area(t)
                ELSE /\ t = 0
                     /\ probe.out.settled = "resolved"
                     /\ DOMAIN probe.out.value = {"error"}

\* a small configured image is taken although a larger canvas is on the page
C25_Witness ==
  /\ Scraped /\ MatchingSelectors # {} /\ probe.out.target = 2
  /\ probe.out.target \notin LargeEnough /\ 1 \in LargeEnough

\* C26: every REQUEST_PAGE_DATA gets exactly one response: {success: true}
\* with data whose image is not empty, sent only when image data was
\* extracted, or {success: false} with an error.
C26_OneResponse ==
  Scraped =>
    /\ Len(probe.responses) = 1
    /\ LET response == probe.responses[1]
       IN IF response.success
            THEN /\ probe.extraction = "data" /\ probe.out.target # 0
                 /\ response.data.answerImageBase64 # ""
            ELSE response.error # ""

\* ------------------------------------------------------------ analysis
\* calculateStats of the analysis view on its own.  Scores are whole numbers;
\* a quotient is kept as the pair of its numerator and denominator, and a
\* comparison with 0.6, 0.75 or 0.9 of a maximum is made on whole numbers
\* (for these values the doubles of the code compare the same way).
AnalysisScores == {5, 6, 8, 9, 15, 18}
AnalysisMaxScores == {10, 20}

StoredHistories ==
  UNION {[1..n -> [score : AnalysisScores, maxScore : AnalysisMaxScores]] :
           n \in 0..MaxEntries}

NoStats == [none |-> "stats"]

\* history.reduce((acc, curr) => acc + curr.score, 0)
RECURSIVE totalOf(_)
totalOf(list) == IF list = <<>> THEN 0 ELSE Head(list).score + totalOf(Tail(list))

\* mutant: a ratio of exactly 0.9 still counts as good
bucketOf_NineIsGood(s) ==
  IF s.score * 100 < s.maxScore * 60 THEN 1
  ELSE IF s.score * 100 < s.maxScore * 75 THEN 2
  ELSE IF s.score * 100 <= s.maxScore * 90 THEN 3
  ELSE 4

\* the bucket of one entry by ratio = score / maxScore: 1 below 0.6,
\* 2 below 0.75, 3 below 0.9, 4 otherwise
bucketOf(s) ==
  IF s.score * 100 < s.maxScore * 60 THEN 1
  ELSE IF s.score * 100 < s.maxScore * 75 THEN 2
  ELSE IF s.score * 100 < s.maxScore * 90 THEN 3
  ELSE 4

BucketNames == <<"daijiayou", "jige", "lianghao", "youxiu">>

calculateStats(saved) ==
  IF saved = NoItem \/ saved.list = <<>>
    THEN NoStats
    ELSE LET list == saved.list
             count == Len(list)
             totalScore == totalOf(list)
             maxScore == IF list[1].maxScore = 0 THEN 100 ELSE list[1].maxScore
             \* s.score >= maxScore * 0.6
             passCount == Cardinality({i \in 1..count :
                                         list[i].score * 10 >= maxScore * 6})
         IN [count |-> count,
             avgScore |-> [num |-> totalScore, den |-> count],
             passThreshold |-> [num |-> maxScore * 6, den |-> 10],
             passRate |-> [num |-> passCount * 100, den |-> count],
             difficulty |-> [num |-> totalScore, den |-> count * maxScore],
             distribution |->
               [b \in 1..4 |->
                  [name |-> BucketNames[b],
                   value |-> Cardinality({i \in 1..count : bucketOf(list[i]) = b})]]]

AnalysisInit ==
  /\ PanelInit
  /\ \E saved \in {NoItem} \cup {[list |-> h] : h \in StoredHistories} :
       probe = [fn |-> "calculateStats", saved |-> saved, done |-> FALSE,
                stats |-> NoStats]

\* the analysis view mounts
CalculateStats ==
  /\ probe.fn = "calculateStats"
  /\ ~probe.done
  /\ probe' = [probe EXCEPT !.done = TRUE, !.stats = calculateStats(probe.saved)]
  /\ UNCHANGED panelVars

AnalysisNext == CalculateStats

AnalysisSpec == AnalysisInit /\ [][AnalysisNext]_vars

\* the history of the example: 8, 5 and 9 out of 10
ExampleHistory ==
  <<[score |-> 8, maxScore |-> 10], [score |-> 5, maxScore |-> 10],
    [score |-> 9, maxScore |-> 10]>>

ExampleDone ==
  /\ probe.fn = "calculateStats" /\ probe.done
  /\ probe.saved = [list |-> ExampleHistory]

\* p/q rounded to the nearest multiple of 1/scale, as a whole number of them
Rounded(q, scale) == (2 * q.num * scale + q.den) \div (2 * q.den)

\* average 22/3 (7.33), pass threshold 6.0, pass rate 2/3 (66.7%)
ExampleAverages ==
  /\ probe.stats.avgScore = [num |-> 22, den |-> 3]
  /\ Rounded(probe.stats.avgScore, 100) = 733
  /\ probe.stats.passThreshold.num = 6 * probe.stats.passThreshold.den
  /\ probe.stats.passRate.num * 3 = 200 * probe.stats.passRate.den
  /\ Rounded(probe.stats.passRate, 10) = 667

ExampleBuckets == [b \in 1..4 |-> probe.stats.distribution[b].value]

\* C28 as stated: for the example history the average is 22/3, the pass rate
\* 2/3 with threshold 6.0, and the buckets hold 0, 1, 1, 1 entries.
C28_ExampleAsStated ==
  ExampleDone => (ExampleAverages /\ ExampleBuckets = <<0, 1, 1, 1>>)

\* C28: for the example history the average is 22/3 (7.33), the pass rate
\* 2/3 (66.7%) with threshold 6.0, and the buckets hold 1, 0, 1, 1 entries:
\* the score 5 of 10 is below 0.6 and falls into the lowest bucket.
C28_ExampleStats ==
  ExampleDone => (ExampleAverages /\ ExampleBuckets = <<1, 0, 1, 1>>)

C28_Witness == ExampleDone /\ probe.stats # NoStats

\* ------------------------------------------------------------ host page
\* the host page between a scan and the FILL_SCORE that follows it: the page
\* shows one student at a time and moves on when the operator, or the host
\* itself, goes to the next sheet
NoScore == 0

\* pages on which at most one score-input selector matches
HostPages ==
  UNION {PagesOn(M) : M \in {X \in SUBSET ScoreSelectors : Cardinality(X) <= 1}}

HostPageInit ==
  /\ PanelInit
  /\ \E shown \in Students, found \in HostPages, tag \in ActiveTags :
       probe = [fn |-> "hostPage", shown |-> shown, found |-> found,
                activeTag |-> tag, scanned |-> NoCtx, message |-> NoFill,
                written |-> [s \in Students |-> NoScore]]

\* REQUEST_PAGE_DATA answered with the sheet on screen
PageScanned ==
  /\ probe.fn = "hostPage"
  /\ probe.message = NoFill
  /\ probe' = [probe EXCEPT !.scanned = scrapeData(probe.shown, TRUE)]
  /\ UNCHANGED panelVars

\* handleSubmitScore sends the score graded from the scanned sheet: the
\* message carries the score and the platform, nothing about the student
FillScoreSent ==
  /\ probe.fn = "hostPage"
  /\ probe.scanned # NoCtx /\ probe.message = NoFill
  /\ probe' = [probe EXCEPT !.message =
                 [score |-> assessStudentAnswer(probe.scanned.answerImageBase64).score,
                  platform |-> probe.scanned.platform]]
  /\ UNCHANGED panelVars

\* the host page moves on to another student
PageAdvances ==
  /\ probe.fn = "hostPage"
  /\ \E next \in Students \ {probe.shown} : probe' = [probe EXCEPT !.shown = next]
  /\ UNCHANGED panelVars

\* the content script handles FILL_SCORE on the page as it is now
FillScoreArrives ==
  /\ probe.fn = "hostPage"
  /\ probe.message # NoFill
  /\ LET out == tryFillScore(probe.message.score, probe.message.platform,
                             probe.found, probe.activeTag)
     IN probe' = [probe EXCEPT
                    !.message = NoFill, !.scanned = NoCtx,
                    !.written[probe.shown] =
                       IF out.answer.success THEN probe.message.score ELSE @]
  /\ UNCHANGED panelVars

HostPageNext ==
  \/ PageScanned
  \/ FillScoreSent
  \/ PageAdvances
  \/ FillScoreArrives

HostPageSpec == HostPageInit /\ [][HostPageNext]_vars

\* C34: the score written into the page of a student is the score graded
\* from that student's own answer, also when the page has moved on between
\* the scan and the arrival of FILL_SCORE.
C34_ScoreToOwnPage ==
  probe.fn = "hostPage" =>
    \A s \in Students :
      probe.written[s] # NoScore => probe.written[s] = assessStudentAnswer(s).score

\* C37: for a history that is not empty and whose maxScore values are all
\* positive, the number of entries counted as passing in the pass rate is
\* the number of entries outside the lowest bucket of the distribution,
\* whether or not the entries share one maxScore.
C37_PassingOutsideLowest ==
  (/\ probe.fn = "calculateStats" /\ probe.done /\ probe.stats # NoStats
   /\ \A i \in 1..Len(probe.saved.list) : probe.saved.list[i].maxScore > 0) =>
    probe.stats.passRate.num =
      100 * (probe.stats.count - probe.stats.distribution[1].value)

\* C36: on one page, CHECK_READY answers hasImage = true exactly when
\* REQUEST_PAGE_DATA locates a target element, that is, when it does not
\* answer with the no-answer-sheet error; both report the same platform.
C36_ReadyIffTarget ==
  (Scraped /\ probe.ready # NoAnswer) =>
    /\ probe.ready.hasImage <=> probe.out.target # 0
    /\ probe.ready.hasImage <=>
         ~(probe.responses = <<[success |-> FALSE, error |-> MsgNoTarget]>>)
    /\ probe.ready.platform = detectPlatformOf(probe.host)

\* no configured selector matches, and the heuristic finds the element for
\* both handlers
C36_Witness ==
  /\ Scraped /\ probe.ready # NoAnswer
  /\ MatchingSelectors = {}
  /\ probe.ready.hasImage /\ probe.out.target # 0

\* ------------------------------------------------------------ rubric editor
\* the rubric state of App with its stored copy ('app_rubric_content') and
\* the RubricDrawer: its text area, its generate button and its save button
gradingVars ==
  <<mode, status, pageContext, result, errorMsg, health,
    isBatchRunning, batchCount, scanWaitCount,
    isBatchRunningRef, lastGradedNameRef,
    history, nameVisible, tasks, gradedInRun, ev>>

MsgGenerateFailed == "rubric generation error, check API key"

\* what an earlier session can have left in storage: nothing, or a text that
\* passed the blank test of handleSaveRubric
StoredRubrics == {NoItem, [text |-> "rubric"]}

\* localStorage.setItem('app_rubric_content', text) of handleSaveRubric
storeRubric(stored, text) ==
  IF Len(trim(text)) > 0 THEN [text |-> text] ELSE stored

\* the text a resolved generateRubricFromImages hands to the editor
rubricTextOf(value) ==
  IF value.kind = "fallback" THEN value.text ELSE "generated rubric"

\* the configurations rubric generation is tried with
GenerateConfigs ==
  {c \in Configs : c.endpoint # "" /\ c.modelName = "custom-model"}

RubricInit ==
  /\ PanelInit
  /\ \E stored \in StoredRubrics :
       probe = [fn |-> "rubric", stored |-> stored, loaded |-> FALSE,
                rubricText |-> "", status |-> "idle", hasImages |-> FALSE,
                op |-> [name |-> "mount"]]

\* the mount effect of App reads the stored rubric
LoadRubric ==
  /\ probe.fn = "rubric" /\ ~probe.loaded
  /\ probe' = [probe EXCEPT !.loaded = TRUE, !.op = [name |-> "load"]]
  /\ IF probe.stored # NoItem /\ probe.stored.text # ""
       THEN /\ rubricContent' = probe.stored.text
            /\ isRubricConfigured' = TRUE
       ELSE UNCHANGED <<isRubricConfigured, rubricContent>>
  /\ UNCHANGED gradingVars

\* the operator types in the text area
EditRubricText ==
  /\ probe.fn = "rubric"
  /\ \E text \in RubricTexts :
       probe' = [probe EXCEPT !.rubricText = text,
                              !.op = [name |-> "edit", text |-> text]]
  /\ UNCHANGED <<isRubricConfigured, rubricContent>>
  /\ UNCHANGED gradingVars

\* both images have been uploaded
UploadImages ==
  /\ probe.fn = "rubric" /\ ~probe.hasImages
  /\ probe' = [probe EXCEPT !.hasImages = TRUE, !.op = [name |-> "upload"]]
  /\ UNCHANGED <<isRubricConfigured, rubricContent>>
  /\ UNCHANGED gradingVars

\* handleGenerate up to the await
ClickGenerate ==
  /\ probe.fn = "rubric"
  /\ probe.hasImages /\ probe.status # "processing"
  /\ probe' = [probe EXCEPT !.status = "processing", !.op = [name |-> "generate"]]
  /\ UNCHANGED <<isRubricConfigured, rubricContent>>
  /\ UNCHANGED gradingVars

\* handleGenerate after the await: the text of a resolved call, or the catch
GenerateSettles ==
  /\ probe.fn = "rubric"
  /\ probe.status = "processing"
  /\ \E config \in GenerateConfigs, reply \in Replies :
       LET out == generateRubricFromImages(config, "", reply)
       IN IF out.outcome = "resolved"
            THEN probe' = [probe EXCEPT !.rubricText = rubricTextOf(out.value),
                                        !.status = "done",
                                        !.op = [name |-> "generated"]]
            ELSE probe' = [probe EXCEPT !.rubricText = MsgGenerateFailed,
                                        !.status = "idle",
                                        !.op = [name |-> "generateFailed"]]
  /\ UNCHANGED <<isRubricConfigured, rubricContent>>
  /\ UNCHANGED gradingVars

\* the save button: onSave(rubricText)
ClickSaveRubric ==
  /\ probe.fn = "rubric"
  /\ handleSaveRubric(probe.rubricText)
  /\ probe' = [probe EXCEPT !.stored = storeRubric(@, probe.rubricText),
                            !.op = [name |-> "save", text |-> probe.rubricText]]
  /\ UNCHANGED gradingVars

\* the clear-cache button: localStorage.clear() and a reload of the panel
ClearCache ==
  /\ probe.fn = "rubric"
  /\ probe.stored # NoItem
  /\ probe' = [fn |-> "rubric", stored |-> NoItem, loaded |-> FALSE,
               rubricText |-> "", status |-> "idle", hasImages |-> FALSE,
               op |-> [name |-> "mount"]]
  /\ isRubricConfigured' = FALSE
  /\ rubricContent' = ""
  /\ UNCHANGED gradingVars

RubricNext ==
  \/ LoadRubric
  \/ ClearCache
  \/ EditRubricText
  \/ UploadImages
  \/ ClickGenerate
  \/ GenerateSettles
  \/ ClickSaveRubric

RubricSpec == RubricInit /\ [][RubricNext]_vars

\* C35: isRubricConfigured is true only while the rubric content is not
\* blank; a save of a blank or whitespace-only text changes neither the
\* flag, the rubric in memory nor the stored rubric, and a save of any other
\* text sets the flag and makes both rubrics that text.
C35_ConfiguredNotBlank ==
  [][/\ isRubricConfigured' => trim(rubricContent') # ""
     /\ (probe'.fn = "rubric" /\ probe'.op.name = "save") =>
          IF trim(probe'.op.text) = ""
            THEN /\ isRubricConfigured' = isRubricConfigured
                 /\ rubricContent' = rubricContent
                 /\ probe'.stored = probe.stored
            ELSE /\ isRubricConfigured'
                 /\ rubricContent' = probe'.op.text
                 /\ probe'.stored = [text |-> probe'.op.text]]_vars

\* a whitespace-only text saved over a configured rubric
C35_Witness ==
  /\ probe.fn = "rubric" /\ probe.op = [name |-> "save", text |-> " "]
  /\ isRubricConfigured /\ probe.stored = [text |-> rubricContent]

\* C38: a failed rubric generation leaves the text of the editor as it was,
\* and the stored rubric is never the error message of a failed generation.
C38_FailureKeepsText ==
  [][/\ (probe'.fn = "rubric" /\ probe.status = "processing"
          /\ probe'.op.name = "generateFailed") =>
          probe'.rubricText = probe.rubricText
     /\ probe'.fn = "rubric" => probe'.stored # [text |-> MsgGenerateFailed]]_vars

\* ------------------------------------------------------------ retry policy
\* the last handler met a page-adapter failure with the running flag clear
ScanFailedWhileIdle ==
  ev.fail \in {"throw", "noTab", "lastError", "failed"} /\ ~ev.running

\* the message handleScanError is given for each kind of failure
ScanErrorMessage(fail) ==
  CASE fail = "throw" -> MsgThrow
    [] fail = "noTab" -> MsgNoTab
    [] fail = "lastError" -> MsgConn
    [] OTHER -> MsgNoImage

\* C21: a page-adapter failure met while the loop is not running sets the
\* error message of that failure, moves to status 'error' and schedules no
\* retry scan (and sends no request, starts no grading call).
C21_IdleFailureSurfaced ==
  ScanFailedWhileIdle =>
    /\ errorMsg = ScanErrorMessage(ev.fail) /\ status = "error"
    /\ ev.timers = 0 /\ ~ev.req /\ ev.ai = NoCall

\* a stopped batch whose pending scan still ran and then failed
C21_Witness ==
  ScanFailedWhileIdle /\ ev.fail = "lastError" /\ ev.clMode = Batch

\* C22: every page-adapter failure met while the loop is running adds one to
\* waitAttempts and schedules one retry, as a same-student response does,
\* whatever the kind of failure.
C22_FailureCountsAsWait ==
  [][(ScanFailedWhileRunning' /\ (ev' # ev \/ tasks' # tasks)) =>
       (scanWaitCount' = scanWaitCount + 1 /\ ev'.timers = 1)]_vars

\* the step is a scan response naming the student graded last, loop running
SameStudentWait ==
  /\ ev'.op = "scanResp" /\ ev'.running /\ ev'.scanned # NoSheet
  /\ scrapeName(ev'.scanned, nameVisible) = lastGradedNameRef
  /\ tasks' # tasks

\* C23: while the loop is running, a scan attempt that ends in a same-student
\* wait or in a retried failure leaves status as it was, in the step that
\* sends the request as in the step that receives the answer.
C23_StatusKept ==
  [][(\/ SameStudentWait
      \/ ScanFailedWhileRunning'
      \/ ev'.op = "scanTimer" /\ ev'.running /\ ev'.req) =>
       status' = status]_vars

\* a wait inside a running batch with the review pane still shown
C23_Witness ==
  /\ ev.op = "scanResp" /\ ev.running /\ ev.scanned # NoSheet /\ ev.timers = 1
  /\ status = "review"

\* C24: while the loop is running, every same-student answer and every
\* failure schedules exactly one further attempt whatever the number of
\* attempts before it, keeps the loop running and sets no error.
C24_NoRetryCeiling ==
  [][(SameStudentWait \/ (ScanFailedWhileRunning' /\ ev' # ev)) =>
       /\ ev'.timers = 1 /\ Pending("scanTimer")' # {}
       /\ isBatchRunningRef' /\ isBatchRunning'
       /\ errorMsg' = NoError /\ status' = status]_vars

\* a failure retried after the wait counter has reached its cap
C24_Witness ==
  ScanFailedWhileRunning /\ scanWaitCount = MaxWait /\ ev.timers = 1

C30_NoGenericInBatch ==
  /\ (ev.ai # NoCall /\ ev.running) => ev.ai.rubric # DEFAULT_GENERIC_RUBRIC
  /\ (ev.op = "scanResp" /\ ev.running /\ ev.scanned # NoSheet /\ ev.timers = 0) =>
       \/ ev.ai # NoCall /\ ev.ai.rubric # DEFAULT_GENERIC_RUBRIC
       \/ ev.ai = NoCall /\ ~isBatchRunningRef /\ ~isBatchRunning

\* ------------------------------------------------------------ loop control
\* C31: the running flag (state and ref) is true only in Batch mode: every
\* change of mode leaves it false, and it turns true only in a step taken
\* in Batch mode.
C31_RunningOnlyInBatch ==
  [][/\ (isBatchRunning' \/ isBatchRunningRef') => mode' = Batch
     /\ mode' # mode => (~isBatchRunning' /\ ~isBatchRunningRef')
     /\ (~isBatchRunningRef /\ isBatchRunningRef') =>
          (mode = Batch /\ ev'.op = "startBatch")]_vars

\* the operator has left Batch mode while the loop was running
C31_Witness ==
  /\ ev.op = "setMode" /\ mode = Trial /\ ~isBatchRunningRef
  /\ \E t \in BagToSet(tasks) : t.cl.mode = Batch /\ t.kind = "scanTimer"

\* the continuations created by renders in Batch mode that are still pending
BatchContinuations ==
  {t \in BagToSet(tasks) : t.cl.mode = Batch}

\* C32: at most one batch-loop continuation (scan timer, scan request,
\* grading call, auto-submit timer) is pending at any time, also after the
\* loop was stopped and started again.
C32_OneLoop ==
  /\ Cardinality(BatchContinuations) <= 1
  /\ \A t \in BatchContinuations : CopiesIn(t, tasks) = 1

\* C33: once the view was unmounted with the loop running, no handler of it
\* sends REQUEST_PAGE_DATA or FILL_SCORE, starts a grading call or schedules
\* a scan.
C33_UnmountHalts ==
  (probe.fn = "tabs" /\ ~probe.mounted /\ probe.running) =>
    (~ev.req /\ ev.fill = NoFill /\ ev.ai = NoCall /\ ev.timers = 0)

=============================================================================
